---- MODULE Spec2Model ----
(***************************************************************************)
(* Model of the EventDriver event bus (react-ripple-effect).               *)
(*                                                                         *)
(* The registry is a JavaScript Map from event key to a Set of callbacks.  *)
(* Both containers are insertion ordered, so they are modelled as          *)
(* sequences without repetition.  trigger() walks the live Set with        *)
(* Set.prototype.forEach; ECMAScript defines that walk over the Set's      *)
(* entry list: an entry deleted before it is reached is skipped, an entry  *)
(* added while the walk is running is appended and is reached later.  The  *)
(* model keeps the Set compact and keeps the walk's position as the number *)
(* of live entries already passed, which is the same walk.                 *)
(*                                                                         *)
(* A callback is an opaque function: what an invocation does (which        *)
(* registry calls it makes, whether it returns, throws or returns a        *)
(* Promise) is chosen by the environment at each invocation.               *)
(***************************************************************************)
EXTENDS Integers, Sequences, FiniteSets, TLC

VARIABLES
    listeners,   \* EventDriver.listeners: Map<string, Set<callback>>, in insertion order
    handles,     \* unsubscribe closures issued so far, each capturing <<key, callback>>
    lastError,   \* what the most recent top-level API call threw ("none" if nothing)
    pc,          \* "idle": no trigger on the stack; "loop": inside forEach, between
                 \* callbacks; "listener": inside the body of a callback
    cur,         \* the callback whose body is executing ("none" outside a callback)
    calls,       \* calls of the driver made so far by callback bodies during this
                 \* top-level trigger
    tkey,        \* trigger(): its key argument
    targs,       \* trigger(): its ...args
    tidx,        \* forEach: number of live entries of the walked Set already passed
    tlive,       \* forEach: the walked Set object is still the one the Map holds
    stack,       \* the triggers whose forEach is suspended in a callback that called
                 \* trigger itself, outermost first: for each the callback that runs, the
                 \* walk's position and the trigger's own record
    promises,    \* trigger(): the local `promises` array, as the state of each result
    future,      \* the Promise trigger() returned: "none" (not returned / consumed),
                 \* "pending", "resolved", "rejected"
    logged,      \* number of console.error reports made by this trigger
    tmembers,    \* history: members of the key's Set when trigger() was called
    tinvoked,    \* history: the invocations made by this trigger, in order
    tmutated,    \* history: a callback made a registry call during this dispatch
    tchanged,    \* history: the registry was changed since trigger() was called
    lastCall,    \* history: the most recent top-level call, its arguments and what it
                 \* did, when that call is a trigger or was made while no record of a
                 \* trigger was kept (NoCall otherwise, and after a trigger was awaited)
    spent,       \* history: the unsubscribe closure most recently invoked at top level
                 \* since the last trigger (<<>> if none)
    stale,       \* history: the unsubscribe closure returned by the subscribe call that
                 \* the latest top-level cleanup() since the last trigger directly
                 \* followed (<<>> if none)
    after,       \* number of top-level calls made since the latest trigger returned, while
                 \* what is known of that trigger is kept (0 when nothing is kept)
    \* -- EventProvider over a client EventDriver (ProviderSpec) --
    ownListeners, \* the registry of an EventDriver the provider would create for itself
    phandles,    \* unsubscribe closures issued, each capturing <<driver, key, callback>>
    ctxSubs,     \* history: the <<key, callback>> subscribed through the context, and
                 \* those subscribed on the client itself, still registered
    tick,        \* history: number of subscribe calls made so far
    firstSub,    \* history: per key, the tick of the first subscribe call ever made to it
    created,     \* history: per key, the tick of the subscribe call that created its
                 \* present Listener Set
    plast,       \* history: the latest trigger, when no registry call was made since it
                 \* was called: through what, on which key, with what arguments
    released,    \* history: the unsubscribe closure that most recently removed its
                 \* callback, no subscribe or cleanup call having followed: its driver,
                 \* key and callback, and by how many subscribe calls its pair stood
                 \* registered
    \* -- useMonitorEvent with its debounce / throttle wrappers (HookSpec) --
    now,         \* Date.now() and the timers' clock
    mounted,     \* "no": not rendered yet, "yes": effect has run, "gone": effect cleaned up
    dOpt,        \* config.debounce of the handler (-1 for undefined)
    tOpt,        \* config.throttle of the handler (-1 for undefined)
    wkind,       \* what was subscribed: "plain", "debounce" or "throttle"
    warned,      \* console.warn calls made by the effect
    timers,      \* setTimeout timers not yet fired or cleared: [id, due, args]
    ntimers,     \* number of timers created so far (the next timer id is ntimers + 1)
    timeoutId,   \* the wrapper's timeoutId (0 for null)
    lastCallTime, \* throttle: lastCallTime
    pendingArgs, \* throttle: pendingArgs ("null" for null)
    wpc,         \* "idle", or where the handler's callback is running: "direct" (called
                 \* by the wrapper or the dispatcher), "timer" (called by a timer); of
                 \* the invocations in progress, the innermost
    wstack,      \* where the invocations of the callback run whose body has triggered
                 \* the key again and waits for that trigger, outermost first
    wcall,       \* history: the latest call of the subscribed listener
    winv,        \* history: the latest invocation of the handler's callback
    owed,        \* history: throttle: arguments of the latest call made within the window
                 \* after an invocation and not delivered yet ("none" if none)
    ntrig,       \* history: number of calls of the subscribed listener so far
    lateTrig,    \* history: a trigger was made on the handler's key after the cleanup
    uncaught,    \* history: the first error that reached no handler: "exception" (thrown
                 \* in a timer task) or "rejection" (of a promise nobody holds)
    hfuture,     \* the Promise returned by the latest trigger made on the handler's key
                 \* from outside any callback ("none" before it has returned)
    handlersRef, \* handlersRef.current: the handlers object of the latest render of the
                 \* component (gone with the component when it is unmounted)
    unsubscribeFunctions
                 \* the unsubscribe function the subscribing effect pushed at its latest
                 \* run: the key and the listener its closure holds ("none" if none)

\* one EventDriver and one trigger call on it
coreVars == <<listeners, handles, lastError, pc, cur, calls, tkey, targs, tidx, tlive, stack,
              promises, future, logged, tmembers, tinvoked, tmutated, tchanged, lastCall,
              spent, stale, after>>

provVars == <<ownListeners, phandles, ctxSubs, tick, firstSub, created, plast, released>>

hookVars == <<now, mounted, dOpt, tOpt, wkind, warned, timers, ntimers, timeoutId,
              lastCallTime, pendingArgs, wpc, wstack, wcall, winv, owed, ntrig, lateTrig,
              uncaught, hfuture, handlersRef, unsubscribeFunctions>>

\* what the EventDriver's own operations leave alone
extVars == <<provVars, hookVars>>

vars == <<coreVars, provVars, hookVars>>

runVars == <<promises, future, logged, tmembers, tinvoked, tmutated, tchanged>>

(***************************************************************************)
(* Bounds and input sets                                                   *)
(***************************************************************************)
\* calls of the driver (subscribe, an unsubscribe closure, cleanup, trigger) the
\* callback bodies may make, in all, during one top-level trigger
MaxCalls == 2
\* invocations one trigger may make before the model stops following it
MaxInvocations == 3
\* top-level calls followed after a trigger while its record and its Promise are kept
MaxAfter == 1
\* subscribe calls followed in a run of the provider
MaxSubs == 3
\* the clock is followed up to this value
MaxTime == 4
\* calls of the hook's listener followed in a run
MaxTriggers == 3

Keys == {"a", "b"}
Callbacks == {"f", "g"}
Args == {"x", "y"}
\* the arguments handed to the driver's trigger, which passes them on as they are
TriggerArgs == {"x"}

\* JavaScript values handed to the API as a key: strings (also the empty one),
\* undefined, a number
KeyValues ==
    [type : {"string"}, val : Keys \cup {""}]
        \cup {[type |-> "undefined", val |-> "undefined"], [type |-> "number", val |-> "1"]}

\* JavaScript values handed to subscribe as a callback: functions, and null
CallbackValues ==
    [type : {"function"}, val : Callbacks] \cup {[type |-> "object", val |-> "null"]}

Str(k) == [type |-> "string", val |-> k]
Fn(c) == [type |-> "function", val |-> c]

(***************************************************************************)
(* Map and Set                                                             *)
(***************************************************************************)
Range(s) == {s[i] : i \in 1..Len(s)}

\* position of c in the sequence s, 0 if absent
Pos(s, c) == IF c \in Range(s) THEN CHOOSE i \in 1..Len(s) : s[i] = c ELSE 0

\* mutant: the listeners are kept in an array and pushed without a membership test
SetPush(s, c) == Append(s, c)

\* Set.prototype.add: appended unless already a member
SetAdd(s, c) == IF c \in Range(s) THEN s ELSE Append(s, c)

\* Set.prototype.delete
SetDelete(s, c) == SelectSeq(s, LAMBDA x : x # c)

MapKeys(m) == [i \in 1..Len(m) |-> m[i].key]

MapHas(m, k) == \E i \in 1..Len(m) : m[i].key = k

\* Map.prototype.get; <<>> stands for undefined only where MapHas was tested first
MapGet(m, k) == IF MapHas(m, k) THEN m[CHOOSE i \in 1..Len(m) : m[i].key = k].set ELSE <<>>

\* mutant: a new key is put in front of the keys already there
MapSetNewKeyFirst(m, k, s) ==
    IF MapHas(m, k)
    THEN [i \in 1..Len(m) |-> IF m[i].key = k THEN [key |-> k, set |-> s] ELSE m[i]]
    ELSE <<[key |-> k, set |-> s]>> \o m

\* Map.prototype.set: an existing key keeps its place, a new key goes last
MapSet(m, k, s) ==
    IF MapHas(m, k)
    THEN [i \in 1..Len(m) |-> IF m[i].key = k THEN [key |-> k, set |-> s] ELSE m[i]]
    ELSE Append(m, [key |-> k, set |-> s])

\* Map.prototype.delete
MapDelete(m, k) == SelectSeq(m, LAMBDA e : e.key # k)

(***************************************************************************)
(* EventDriver: validation and the registry operations                     *)
(***************************************************************************)
\* JavaScript truthiness of the modelled values
Truthy(v) == ~(v.type = "undefined" \/ (v.type = "string" /\ v.val = "")
               \/ (v.type = "number" /\ v.val = "0") \/ (v.type = "object" /\ v.val = "null"))

\* mutant: only the type of the key is tested, so the empty string passes
InvalidKeyTypeOnly(v) == v.type # "string"

\* _invalidateKey throws
InvalidKey(v) == ~Truthy(v) \/ v.type # "string"

\* mutant: only a missing callback is refused, so null passes
InvalidCallbackUndefinedOnly(v) == v.type = "undefined"

\* _invalidateCallback throws
InvalidCallback(v) == v.type # "function"

\* subscribe(key, callback), after validation
SubscribeRegistry(m, k, c) ==
    IF ~MapHas(m, k) THEN MapSet(m, k, <<c>>) ELSE MapSet(m, k, SetAdd(MapGet(m, k), c))

\* mutant: array removal by splice(indexOf(callback), 1), which removes the last
\* element when the callback is not found
UnsubscribeSplice(m, k, c) ==
    IF ~MapHas(m, k)
    THEN m
    ELSE LET old == MapGet(m, k)
             s == IF c \in Range(old) THEN SetDelete(old, c)
                  ELSE SubSeq(old, 1, Len(old) - 1)
         IN IF Len(s) = 0 THEN MapDelete(m, k) ELSE MapSet(m, k, s)

\* mutant: the callback is deleted from the Set of every key
UnsubscribeAllKeys(m, k, c) ==
    LET cleared == [i \in 1..Len(m) |-> [key |-> m[i].key, set |-> SetDelete(m[i].set, c)]]
    IN SelectSeq(cleared, LAMBDA e : Len(e.set) > 0)

\* mutant: a Set that becomes empty is left in the Map
UnsubscribeKeepsEmptyKey(m, k, c) ==
    IF ~MapHas(m, k) THEN m ELSE MapSet(m, k, SetDelete(MapGet(m, k), c))

\* mutant: registration is counted per subscribe call: the callback stays while
\* another subscribe call of the pair has a closure that was not invoked
UnsubscribeCounted(m, k, c) ==
    IF ~MapHas(m, k) \/ (<<k, c>> \in ctxSubs.context /\ <<k, c>> \in ctxSubs.client)
    THEN m
    ELSE LET s == SetDelete(MapGet(m, k), c)
         IN IF Len(s) = 0 THEN MapDelete(m, k) ELSE MapSet(m, k, s)

\* the closure subscribe returns
UnsubscribeRegistry(m, k, c) ==
    IF ~MapHas(m, k)
    THEN m
    ELSE LET s == SetDelete(MapGet(m, k), c)
         IN IF Len(s) = 0 THEN MapDelete(m, k) ELSE MapSet(m, k, s)

\* mutant: every Set is cleared but the Map keeps its keys
CleanupClearsSetsOnly(m) == [i \in 1..Len(m) |-> [key |-> m[i].key, set |-> <<>>]]

\* cleanup()
CleanupRegistry(m) == <<>>

getListenerCount(k) == IF MapHas(listeners, k) THEN Len(MapGet(listeners, k)) ELSE 0

hasListeners(k) == getListenerCount(k) > 0

getEventKeys == MapKeys(listeners)

(***************************************************************************)
(* trigger(): error isolation and promise aggregation                      *)
(***************************************************************************)
\* how an invocation of a callback can end
Outcomes == {"returned", "threw", "promise"}

\* mutant: the callback is called outside any try/catch
TryCatchMissing(outcome) == FALSE

\* try { callback(...args) } catch (error) { console.error(...) }: the catch clause
\* takes whatever the callback threw, so nothing leaves the forEach
TryCatch(outcome) == outcome = "threw"

\* mutant: the loop awaits the callback's promise before it goes on
RecordPromiseAwaited(ps, outcome) == IF outcome = "promise" THEN Append(ps, "fulfilled") ELSE ps

\* if (result instanceof Promise) promises.push(result.catch(...))
RecordPromise(ps, outcome) == IF outcome = "promise" THEN Append(ps, "pending") ELSE ps

\* mutant: the catch handler rethrows after reporting
CatchHandlerRethrows(st) == st

\* result.catch((error) => { console.error(...) }): the state of the promise that is
\* pushed, given the state of the callback's own promise; the handler returns
\* undefined, so a rejection becomes a fulfilment
CatchHandler(st) == IF st = "rejected" THEN "fulfilled" ELSE st

\* mutant: Promise.race in place of Promise.all
PromiseRace(sts) ==
    IF \E i \in 1..Len(sts) : sts[i] = "fulfilled" THEN "fulfilled"
    ELSE IF \E i \in 1..Len(sts) : sts[i] = "rejected" THEN "rejected"
    ELSE "pending"

\* Promise.all over promises in the given states
PromiseAll(sts) ==
    IF \E i \in 1..Len(sts) : sts[i] = "rejected" THEN "rejected"
    ELSE IF \A i \in 1..Len(sts) : sts[i] = "fulfilled" THEN "fulfilled"
    ELSE "pending"

\* mutant: the aggregate counts the callbacks' promises as they fulfil and has no
\* catch handler, so it never settles once one of them is rejected
AggregateCountsFulfilled(ps) ==
    IF \A i \in 1..Len(ps) : ps[i] = "fulfilled" THEN "fulfilled" ELSE "pending"

\* Promise.all(promises).then(() => undefined), as a function of the callbacks' promises
Aggregate(ps) == PromiseAll([i \in 1..Len(ps) |-> CatchHandler(ps[i])])

\* mutant: Promise.all(promises).then(...) is returned also for an empty array
ReturnedPromiseAlwaysChained(ps) == "pending"

\* the value trigger() returns after the forEach: a promise still to be resolved when
\* any promise was recorded, Promise.resolve() otherwise
ReturnedPromise(ps) == IF Len(ps) > 0 THEN "pending" ELSE "resolved"

\* mutant: the early return tests whether the Map is empty, not whether the key is absent
NoListenersMapEmpty(m, k) == Len(m) = 0

\* const listeners = this.listeners.get(key); if (!listeners) return Promise.resolve()
NoListeners(m, k) == ~MapHas(m, k)

(***************************************************************************)
(* Initial state: new EventDriver()                                        *)
(***************************************************************************)
\* stands for an argument the call does not take
NoValue == [type |-> "none", val |-> "none"]

NoCall ==
    [op |-> "none", key |-> "none", cb |-> "none", again |-> FALSE, changed |-> FALSE,
     issued |-> FALSE, kv |-> NoValue, cbv |-> NoValue, afterCleanup |-> FALSE,
     spent |-> FALSE, stale |-> FALSE]

CoreInit ==
    /\ listeners = <<>>
    /\ handles = {}
    /\ lastError = "none"
    /\ pc = "idle"
    /\ cur = "none"
    /\ calls = 0
    /\ tkey = "none"
    /\ targs = "none"
    /\ tidx = 0
    /\ tlive = FALSE
    /\ stack = <<>>
    /\ promises = <<>>
    /\ future = "none"
    /\ logged = 0
    /\ tmembers = <<>>
    /\ tinvoked = <<>>
    /\ tmutated = FALSE
    /\ tchanged = FALSE
    /\ lastCall = NoCall
    /\ spent = <<>>
    /\ stale = <<>>
    /\ after = 0

\* no provider rendered
ProvIdle ==
    /\ ownListeners = <<>>
    /\ phandles = {}
    /\ ctxSubs = [context |-> {}, client |-> {}]
    /\ tick = 0
    /\ firstSub = [k \in Keys |-> 0]
    /\ created = [k \in Keys |-> 0]
    /\ plast = [via |-> "none", key |-> "none", args |-> "none"]
    /\ released = [driver |-> "none", key |-> "none", cb |-> "none", subs |-> 0]

\* history records of the hook's listener: no call made, no invocation made
NoWrapperCall ==
    [at |-> -1, args |-> "none", first |-> FALSE, immediate |-> FALSE, gone |-> FALSE,
     since |-> 0]

NoInvocation ==
    [at |-> -1, args |-> "none", site |-> "none", prevAt |-> -1, callAt |-> -1,
     callArgs |-> "none", since |-> 0, owed |-> "none", gone |-> FALSE]

\* no component using useMonitorEvent rendered
HookIdle ==
    /\ now = 0
    /\ mounted = "no"
    /\ dOpt = -1
    /\ tOpt = -1
    /\ wkind = "plain"
    /\ warned = 0
    /\ timers = {}
    /\ ntimers = 0
    /\ timeoutId = 0
    /\ lastCallTime = 0
    /\ pendingArgs = "null"
    /\ wpc = "idle"
    /\ wstack = <<>>
    /\ hfuture = "none"
    /\ handlersRef = [key |-> "none", cb |-> "none", d |-> -1, t |-> -1]
    /\ unsubscribeFunctions = [key |-> "none", cb |-> "none"]
    /\ wcall = NoWrapperCall
    /\ winv = NoInvocation
    /\ owed = "none"
    /\ ntrig = 0
    /\ lateTrig = FALSE
    /\ uncaught = "none"

Init == CoreInit /\ ProvIdle /\ HookIdle

(***************************************************************************)
(* Who may call the registry                                               *)
(***************************************************************************)
\* no trigger is on the stack: application code runs
Idle == pc = "idle"

\* application code makes a call: at any time; after a trigger the calls are
\* followed up to MaxAfter while the record of that trigger is kept
AtTopLevel == Idle /\ (tkey # "none" => after < MaxAfter)

\* a top-level call that leaves the record of the latest trigger in place is counted
Counted == after' = IF pc = "idle" /\ tkey # "none" THEN after + 1 ELSE after

\* the history of the top-level calls is kept for the calls made while no record of
\* a trigger is kept, and for the triggers; rec is the record of the call being made
Recorded(rec) == IF pc = "idle" /\ tkey # "none" THEN NoCall ELSE rec

\* the body of a callback that trigger() is invoking
InListener == pc = "listener" /\ calls < MaxCalls

\* the record of a call op(kv, cbv) that did not throw on its arguments; k and c are
\* the key and the callback it works on: `again` when it repeats the call made just
\* before it, `changed` when it changed the registry, `issued` when it returned an
\* unsubscribe closure, `afterCleanup` when the call before it was cleanup(), `spent`
\* and `stale` when it is the call of a closure that was in those sets
CallRecord(op, k, c, kv, cbv) ==
    [op |-> op, key |-> k, cb |-> c,
     again |-> (lastCall.op = op /\ lastCall.key = k /\ lastCall.cb = c),
     changed |-> (listeners' # listeners),
     issued |-> (op = "subscribe"),
     kv |-> kv, cbv |-> cbv,
     afterCleanup |-> (lastCall.op = "cleanup"),
     spent |-> (op = "unsubscribe" /\ <<k, c>> = spent),
     stale |-> (op = "unsubscribe" /\ <<k, c>> = stale)]

\* the record of a call op(kv, cbv) that threw on its arguments
InvalidCall(op, kv, cbv) ==
    [op |-> op, key |-> "none", cb |-> "none", again |-> FALSE,
     changed |-> (listeners' # listeners), issued |-> (handles' # handles),
     kv |-> kv, cbv |-> cbv, afterCleanup |-> (lastCall.op = "cleanup"),
     spent |-> FALSE, stale |-> FALSE]

\* the record of a registry call that takes no key and no callback argument
Call(op, k, c) == CallRecord(op, k, c, NoValue, NoValue)

\* bookkeeping shared by the three registry calls; rec is the record of the call
Caller(op, k, c, rec) ==
    /\ calls' = IF pc = "listener" THEN calls + 1 ELSE calls
    /\ tmutated' = (tmutated \/ pc = "listener")
    /\ tchanged' = (tchanged \/ (pc = "listener" /\ listeners' # listeners))
    /\ lastCall' = IF pc = "idle" THEN Recorded(rec) ELSE lastCall
    /\ lastError' = IF pc = "idle" THEN "none" ELSE lastError
    /\ spent' = IF pc = "idle" /\ tkey = "none" /\ op = "unsubscribe" THEN <<k, c>> ELSE spent
    /\ stale' = IF pc = "idle" /\ tkey = "none" /\ op = "cleanup"
                THEN IF lastCall.op = "subscribe" /\ lastCall.issued
                     THEN <<lastCall.key, lastCall.cb>> ELSE <<>>
                ELSE stale
    /\ Counted
    /\ UNCHANGED <<pc, cur, tkey, targs, promises, future, logged, tmembers, tinvoked>>

\* Set.prototype.forEach after callback c was deleted from the Set of key k, for a
\* walk over the Set of key wk that had passed idx live entries of the Set s: an
\* entry deleted behind the walk's position moves the position back by one, and a
\* Set that lost its last member is dropped from the Map (present tells whether the
\* Map still holds it)
WalkAfterDelete(idx, live, wk, s, k, c, present) ==
    IF live /\ wk = k
    THEN [tidx |-> IF Pos(s, c) # 0 /\ Pos(s, c) <= idx THEN idx - 1 ELSE idx,
          tlive |-> present]
    ELSE [tidx |-> idx, tlive |-> live]

\* the suspended walks after that deletion
StackAfterDelete(k, c) ==
    [i \in 1..Len(stack) |->
        LET w == WalkAfterDelete(stack[i].tidx, stack[i].tlive, stack[i].tkey,
                                 MapGet(listeners, stack[i].tkey), k, c,
                                 MapHas(listeners', stack[i].tkey))
        IN [stack[i] EXCEPT !.tidx = w.tidx, !.tlive = w.tlive]]

\* the suspended walks after cleanup(): every Set was cleared and dropped
StackAfterCleanup ==
    [i \in 1..Len(stack) |-> [stack[i] EXCEPT !.tidx = 0, !.tlive = FALSE]]

\* the trigger in progress, as it is put aside while a callback it invoked runs a
\* trigger of its own
Frame ==
    [cur |-> cur, tkey |-> tkey, targs |-> targs, tidx |-> tidx, tlive |-> tlive,
     promises |-> promises, logged |-> logged, tmembers |-> tmembers,
     tinvoked |-> tinvoked, tmutated |-> tmutated, tchanged |-> tchanged]

\* the inner trigger has left: the callback that called it goes on, inside the
\* trigger that invoked it; what the inner trigger's listeners did to the registry
\* was done during the outer dispatch. The Promise the inner trigger returned is the
\* callback's to use and is not followed further.
Resume ==
    LET fr == stack[Len(stack)]
    IN /\ stack' = SubSeq(stack, 1, Len(stack) - 1)
       /\ pc' = "listener"
       /\ cur' = fr.cur
       /\ tkey' = fr.tkey
       /\ targs' = fr.targs
       /\ tidx' = fr.tidx
       /\ tlive' = fr.tlive
       /\ promises' = fr.promises
       /\ logged' = fr.logged
       /\ tmembers' = fr.tmembers
       /\ tinvoked' = fr.tinvoked
       /\ tmutated' = (fr.tmutated \/ tmutated)
       /\ tchanged' = (fr.tchanged \/ tchanged)

(***************************************************************************)
(* subscribe(key, callback)                                                *)
(***************************************************************************)
Subscribe(kv, cbv) ==
    /\ AtTopLevel \/ (InListener /\ ~InvalidKey(kv) /\ ~InvalidCallback(cbv))
    /\ IF InvalidKey(kv) \/ InvalidCallback(cbv)
       THEN /\ lastError' = IF InvalidKey(kv) THEN "InvalidKey" ELSE "InvalidCallback"
            /\ UNCHANGED <<listeners, handles, calls, tmutated, tchanged, spent, stale>>
            /\ lastCall' = Recorded(InvalidCall("subscribe", kv, cbv))
            /\ Counted
            /\ UNCHANGED <<pc, cur, tkey, targs, promises, future, logged, tmembers,
                           tinvoked>>
       ELSE /\ listeners' = SubscribeRegistry(listeners, kv.val, cbv.val)
            /\ handles' = handles \cup {<<kv.val, cbv.val>>}
            /\ Caller("subscribe", kv.val, cbv.val,
                      CallRecord("subscribe", kv.val, cbv.val, kv, cbv))
    \* an entry added to the walked Set is appended behind the walk's position
    /\ UNCHANGED <<tidx, tlive, stack>>
    /\ UNCHANGED extVars

(***************************************************************************)
(* the unsubscribe closure returned by subscribe(key, callback)            *)
(***************************************************************************)
Unsubscribe(h) ==
    /\ h \in handles
    /\ AtTopLevel \/ InListener
    /\ listeners' = UnsubscribeRegistry(listeners, h[1], h[2])
    /\ Caller("unsubscribe", h[1], h[2], Call("unsubscribe", h[1], h[2]))
    /\ LET w == WalkAfterDelete(tidx, tlive, tkey, MapGet(listeners, tkey), h[1], h[2],
                                 MapHas(listeners', tkey))
       IN tidx' = w.tidx /\ tlive' = w.tlive
    /\ stack' = StackAfterDelete(h[1], h[2])
    /\ UNCHANGED handles
    /\ UNCHANGED extVars

(***************************************************************************)
(* cleanup()                                                               *)
(***************************************************************************)
Cleanup ==
    /\ AtTopLevel \/ InListener
    /\ listeners' = CleanupRegistry(listeners)
    /\ Caller("cleanup", "none", "none", Call("cleanup", "none", "none"))
    \* every Set is cleared and dropped: a walk over one of them finds nothing more
    /\ tlive' = FALSE
    /\ tidx' = 0
    /\ stack' = StackAfterCleanup
    /\ UNCHANGED handles
    /\ UNCHANGED extVars

(***************************************************************************)
(* trigger(key, ...args)                                                   *)
(***************************************************************************)
\* trigger(key, ...args), called by application code or by the body of a callback.
\* Called by a callback with a key that has no Set it returns at once and changes
\* nothing, and with an invalid key it throws into that callback: neither is a step.
DriverTrigger(kv, a) ==
    /\ Idle \/ (InListener /\ ~InvalidKey(kv) /\ MapHas(listeners, kv.val))
    /\ IF pc = "listener"
       THEN \* a callback calls trigger: the trigger that invoked it is put aside
            /\ stack' = Append(stack, Frame)
            /\ calls' = calls + 1
            /\ tkey' = kv.val
            /\ targs' = a
            /\ tinvoked' = <<>>
            /\ tmutated' = FALSE
            /\ tchanged' = FALSE
            /\ promises' = <<>>
            /\ logged' = 0
            /\ tidx' = 0
            /\ tmembers' = MapGet(listeners, kv.val)
            /\ tlive' = TRUE
            /\ pc' = "loop"
            /\ cur' = "none"
            /\ UNCHANGED <<listeners, handles, lastError, future, lastCall, spent, stale,
                           after>>
       ELSE IF InvalidKey(kv)
       THEN /\ AtTopLevel
            /\ Counted
            /\ lastError' = "InvalidKey"
            /\ UNCHANGED <<listeners, handles, pc, cur, calls, tkey, targs, tidx, tlive,
                           stack>>
            /\ lastCall' = Recorded(InvalidCall("trigger", kv, NoValue))
            /\ UNCHANGED <<spent, stale>>
            /\ UNCHANGED runVars
       ELSE /\ UNCHANGED <<listeners, handles, cur, stack>>
            /\ lastCall' = CallRecord("trigger", kv.val, "none", kv, NoValue)
            /\ spent' = <<>>
            /\ stale' = <<>>
            /\ after' = 0
            /\ tkey' = kv.val
            /\ targs' = a
            /\ tinvoked' = <<>>
            /\ tmutated' = FALSE
            /\ tchanged' = FALSE
            /\ promises' = <<>>
            /\ logged' = 0
            /\ tidx' = 0
            /\ tmembers' = MapGet(listeners, kv.val)
            /\ IF NoListeners(listeners, kv.val)
               THEN /\ future' = "resolved"
                    /\ lastError' = "none"
                    /\ tlive' = FALSE
                    /\ pc' = "idle"
               ELSE IF ~MapHas(listeners, kv.val)
               THEN \* listeners.forEach on undefined
                    /\ future' = "none"
                    /\ lastError' = "TypeError"
                    /\ tlive' = FALSE
                    /\ pc' = "idle"
               ELSE /\ future' = "none"
                    /\ lastError' = "none"
                    /\ tlive' = TRUE
                    /\ pc' = "loop"
            /\ calls' = 0

\* trigger(key, ...args) called on the driver
Trigger(kv, a) ==
    /\ DriverTrigger(kv, a)
    /\ UNCHANGED extVars

\* mutant: the entries are walked from the last one back
ForEachEntryReversed(s, passed) == s[Len(s) - passed]

\* Set.prototype.forEach: the entry visited after `passed` live entries, in insertion
\* order
ForEachEntry(s, passed) == s[passed + 1]

\* mutant: the callback is called without the arguments
InvocationNoArgs(c, a) == [cb |-> c, args |-> "none"]

\* callback(...args): which function is called and what it receives
Invocation(c, a) == [cb |-> c, args |-> a]

\* the walked Set has an entry the walk has not passed
HasNext == tlive /\ tidx < Len(MapGet(listeners, tkey))

\* listeners.forEach reaches its next entry and calls it: callback(...args)
ForEachNext ==
    /\ pc = "loop"
    /\ HasNext
    /\ Len(tinvoked) < MaxInvocations
    /\ LET c == ForEachEntry(MapGet(listeners, tkey), tidx)
       IN /\ cur' = c
          /\ tinvoked' = Append(tinvoked, Invocation(c, targs))
    /\ tidx' = tidx + 1
    /\ pc' = "listener"
    /\ UNCHANGED <<listeners, handles, lastError, calls, tkey, targs, tlive, stack, promises, future,
                   logged, tmembers, tmutated, tchanged, lastCall,
                   spent, stale, after>>
    /\ UNCHANGED extVars

\* mutant: the dispatcher unsubscribes a callback that threw
RegistryDropsFailed(m, k, c, outcome) ==
    IF outcome = "threw" THEN UnsubscribeRegistry(m, k, c) ELSE m

\* the registry after the forEach body has dealt with a callback's outcome: the try
\* block pushes to the local array and the catch block reports, neither writes to
\* this.listeners
RegistryAfterCallback(m, k, c, outcome) == m

\* the callback body ends: it returns undefined, throws, or returns a Promise
CallbackEnd(outcome) ==
    /\ pc = "listener"
    /\ IF outcome = "threw" /\ ~TryCatch(outcome)
       THEN \* the exception leaves forEach and trigger
            IF stack = <<>>
            THEN /\ pc' = "idle"
                 /\ cur' = "none"
                 /\ lastError' = "CallbackError"
                 /\ tlive' = FALSE
                 /\ tidx' = 0
                 /\ UNCHANGED <<promises, logged, stack, tkey, targs, tmembers, tinvoked,
                                tmutated, tchanged>>
            ELSE \* and reaches the callback that called this trigger
                 /\ Resume
                 /\ UNCHANGED lastError
       ELSE /\ pc' = "loop"
            /\ cur' = "none"
            /\ promises' = RecordPromise(promises, outcome)
            /\ logged' = IF outcome = "threw" THEN logged + 1 ELSE logged
            /\ UNCHANGED <<lastError, tlive, tidx, stack, tkey, targs, tmembers, tinvoked,
                           tmutated, tchanged>>
    /\ listeners' = RegistryAfterCallback(listeners, tkey, cur, outcome)
    /\ UNCHANGED <<handles, calls, future, lastCall, spent, stale, after>>
    /\ UNCHANGED extVars

\* forEach has run out of entries: trigger returns its promise
TriggerReturn ==
    /\ pc = "loop"
    /\ ~HasNext
    /\ IF stack = <<>>
       THEN /\ pc' = "idle"
            /\ future' = ReturnedPromise(promises)
            /\ tlive' = FALSE
            /\ tidx' = 0
            /\ calls' = 0
            /\ UNCHANGED <<cur, tkey, targs, promises, logged, tmembers, tinvoked,
                           tmutated, tchanged, stack>>
       ELSE \* the promise goes to the callback that called this trigger
            /\ Resume
            /\ UNCHANGED <<future, calls>>
    /\ UNCHANGED <<listeners, handles, lastError, lastCall, spent, stale, after>>
    /\ UNCHANGED extVars

\* the Promise a callback returned settles; on rejection the catch handler reports it
PromiseSettle(i, st) ==
    /\ pc = "idle"
    /\ i \in 1..Len(promises)
    /\ promises[i] = "pending"
    /\ promises' = [promises EXCEPT ![i] = st]
    /\ logged' = IF st = "rejected" THEN logged + 1 ELSE logged
    /\ UNCHANGED <<listeners, handles, lastError, pc, cur, calls, tkey, targs, tidx, tlive,
                   stack, future, tmembers, tinvoked, tmutated, tchanged, lastCall,
                   spent, stale, after>>
    /\ UNCHANGED extVars

\* the reaction of Promise.all(promises).then(() => undefined) runs
FutureSettle ==
    /\ pc = "idle"
    /\ future = "pending"
    /\ Aggregate(promises) # "pending"
    /\ future' = IF Aggregate(promises) = "fulfilled" THEN "resolved" ELSE "rejected"
    /\ UNCHANGED <<listeners, handles, lastError, pc, cur, calls, tkey, targs, tidx, tlive,
                   stack, promises, logged, tmembers, tinvoked, tmutated, tchanged, lastCall,
                   spent, stale, after>>
    /\ UNCHANGED extVars

\* the caller has observed the settled promise and lets go of it
Await ==
    /\ pc = "idle"
    /\ future \in {"resolved", "rejected"}
    /\ future' = "none"
    /\ tkey' = "none"
    /\ targs' = "none"
    /\ promises' = <<>>
    /\ logged' = 0
    /\ tmembers' = <<>>
    /\ tinvoked' = <<>>
    /\ tmutated' = FALSE
    /\ tchanged' = FALSE
    /\ lastCall' = NoCall
    /\ lastError' = "none"
    /\ after' = 0
    /\ UNCHANGED <<listeners, handles, pc, cur, calls, tidx, tlive, stack, spent, stale>>
    /\ UNCHANGED extVars

Next ==
    \/ \E kv \in KeyValues, cbv \in CallbackValues : Subscribe(kv, cbv)
    \/ \E h \in Keys \X Callbacks : Unsubscribe(h)
    \/ Cleanup
    \/ \E kv \in KeyValues, a \in TriggerArgs : Trigger(kv, a)
    \/ ForEachNext
    \/ \E o \in Outcomes : CallbackEnd(o)
    \/ TriggerReturn
    \/ \E i \in 1..MaxInvocations, st \in {"fulfilled", "rejected"} : PromiseSettle(i, st)
    \/ FutureSettle
    \/ Await

Spec == Init /\ [][Next]_vars

\* The event loop runs every queued promise reaction, and the callbacks' promises are
\* taken to settle: the hypothesis under which the returned promise must resolve.
LiveSpec ==
    /\ Spec
    /\ WF_vars(FutureSettle)
    /\ WF_vars(\E i \in 1..MaxInvocations, st \in {"fulfilled", "rejected"} : PromiseSettle(i, st))

(***************************************************************************)
(* Observations used by the properties                                     *)
(***************************************************************************)
\* the callbacks this trigger has invoked, in order
InvokedCbs == [i \in 1..Len(tinvoked) |-> tinvoked[i].cb]

\* how many times c occurs in the sequence s
Count(s, c) == Cardinality({i \in 1..Len(s) : s[i] = c})

\* control has left a trigger call (by return or by an exception) and its record is kept
TriggerLeft == pc = "idle" /\ tkey # "none"

\* no call was made since
JustLeft == TriggerLeft /\ after = 0

\* that trigger call returned a promise
Returned == TriggerLeft /\ future # "none"

(***************************************************************************)
(* Properties                                                              *)
(***************************************************************************)

\* C1: every callback a trigger invokes was a member of the key's Listener Set
\* when trigger was called (a callback subscribed to the key by a running
\* listener is not invoked in that run).
C1_InvokedWereMembers ==
    \A i \in 1..Len(tinvoked) : tinvoked[i].cb \in Range(tmembers)

\* C2: every callback that was a member of the key's Listener Set when trigger
\* was called has been invoked by the time trigger returns, also when an earlier
\* listener of the run unsubscribed it or called cleanup.
C2_MembersStillInvoked ==
    Returned => Range(tmembers) \subseteq Range(InvokedCbs)

\* C3: when listeners throw synchronously, whichever and however many, and no
\* listener calls the registry during the dispatch, trigger still invokes every
\* listener registered under the key, in order.
C3_ThrowIsolated ==
    (TriggerLeft /\ ~tmutated) => InvokedCbs = tmembers

\* a run of two listeners that both threw synchronously, and both were invoked
C3_Witness ==
    /\ TriggerLeft /\ ~tmutated
    /\ Len(tmembers) = 2
    /\ Len(promises) = 0 /\ logged = 2
    /\ InvokedCbs = tmembers

\* C4: for a valid key, whatever the listeners do (throw, fail asynchronously,
\* succeed), trigger does not throw to its caller and the promise it returned is
\* never rejected: once it is settled it is resolved.
C4_TriggerNeverFails ==
    /\ lastError \notin {"CallbackError", "TypeError"}
    /\ future # "rejected"
    /\ (Returned /\ future # "pending") => future = "resolved"

\* a resolved trigger whose listeners threw synchronously and failed asynchronously
C4_Witness ==
    /\ future = "resolved"
    /\ Len(tinvoked) = 2
    /\ promises = <<"rejected">>
    /\ logged = 2

\* C5: the promise trigger returned is not resolved while a promise recorded by
\* that trigger is still pending.
C5_ResolvedOnlyAfterAll ==
    future = "resolved" => \A i \in 1..Len(promises) : promises[i] # "pending"

\* a resolved trigger that had recorded two promises
C5_Witness ==
    /\ future = "resolved"
    /\ Len(promises) = 2
    /\ \A i \in 1..Len(promises) : promises[i] = "fulfilled"

\* C7: when no listener returned a promise, the promise trigger returns is
\* resolved at the moment trigger returns, and no listener is still running.
C7_SyncAlreadyResolved ==
    (Returned /\ Len(promises) = 0) => (future = "resolved" /\ cur = "none")

\* a trigger that ran two synchronous listeners and has returned
C7_Witness ==
    /\ Returned /\ Len(promises) = 0
    /\ Len(tinvoked) = 2 /\ logged = 0
    /\ future = "resolved"

\* C8: trigger on a valid key that has no Listener Set returns a resolved
\* promise, invokes no callback and leaves the registry as it was.
C8_NoListenersNoEffect ==
    (TriggerLeft /\ tmembers = <<>>) =>
        /\ future = "resolved"
        /\ JustLeft => lastError = "none"
        /\ tinvoked = <<>>
        /\ logged = 0
        /\ ~tchanged

\* such a trigger, made while another key has listeners
C8_Witness ==
    /\ TriggerLeft /\ tmembers = <<>>
    /\ future = "resolved"
    /\ Len(listeners) > 0
    /\ ~MapHas(listeners, tkey)

\* C6: if the promises recorded by a trigger settle, the promise trigger
\* returned is eventually resolved, also when some of them are rejected. The promise
\* is followed until a later top-level trigger takes its place (future is "none"
\* while that trigger runs).
C6_EventuallyResolves ==
    (future = "pending") ~> (future \in {"resolved", "none"})

\* a trigger resolved although the first of its two recorded promises was rejected
C6_Witness ==
    /\ future = "resolved"
    /\ promises = <<"rejected", "fulfilled">>

\* C9: a callback reference subscribed again to a key it is registered under is
\* stored once: the listener count counts each reference once, a repeated
\* subscribe leaves one entry, and a trigger whose dispatch no listener
\* disturbs invokes each registered callback exactly once.
C9_SubscribeDedupes ==
    /\ \A k \in Keys : getListenerCount(k) = Cardinality(Range(MapGet(listeners, k)))
    /\ (lastCall.op = "subscribe" /\ lastCall.again) =>
           Count(MapGet(listeners, lastCall.key), lastCall.cb) = 1
    /\ (TriggerLeft /\ ~tmutated) =>
           \A c \in Range(tmembers) : Count(InvokedCbs, c) = 1

\* the same callback has just been subscribed twice in a row to a key, whose count is 1
C9_Witness ==
    /\ lastCall.op = "subscribe" /\ lastCall.again
    /\ getListenerCount(lastCall.key) = 1

\* C10: a call of an unsubscribe handle that directly follows a call of the same
\* handle changes nothing in the registry and does not throw; no listener count
\* is negative.
C10_UnsubscribeIdempotent ==
    /\ (lastCall.op = "unsubscribe" /\ lastCall.again) =>
           (~lastCall.changed /\ lastError = "none")
    /\ \A k \in Keys : getListenerCount(k) >= 0

\* a handle has just been called twice in a row while other listeners are registered
C10_Witness ==
    /\ lastCall.op = "unsubscribe" /\ lastCall.again
    /\ ~lastCall.changed
    /\ Len(listeners) > 0

\* a value that is a non-empty string
NonEmptyString(v) == v.type = "string" /\ v.val # ""

\* C11: an unsubscribe closure that has been invoked leaves the registry unchanged
\* at every later invocation, also when its callback was subscribed to its key
\* again in between.
C11_HandleOneShot ==
    (lastCall.op = "unsubscribe" /\ lastCall.spent) => ~lastCall.changed

\* C12: invoking the closure issued for (key, callback) removes that callback
\* from that key and nothing else: the other members of the key keep their
\* places, and every other key keeps its Set, also one that holds the same
\* callback.
C12_UnsubscribeFrame ==
    [][\A h \in Keys \X Callbacks :
          Unsubscribe(h) =>
              \A k \in Keys :
                  MapGet(listeners', k) =
                      IF k = h[1] THEN SetDelete(MapGet(listeners, k), h[2])
                      ELSE MapGet(listeners, k)]_vars

\* a closure has just removed its callback from its key; the key keeps another
\* callback, and the removed callback is still registered under another key
C12_Witness ==
    /\ lastCall.op = "unsubscribe" /\ lastCall.changed
    /\ \E c \in Callbacks \ {lastCall.cb} : c \in Range(MapGet(listeners, lastCall.key))
    /\ \E k \in Keys \ {lastCall.key} : lastCall.cb \in Range(MapGet(listeners, k))

\* C13: no key of the registry maps to an empty Set: a key is listed by
\* getEventKeys exactly when its listener count is positive, exactly when
\* hasListeners is true.
C13_NoEmptyListenerSet ==
    /\ \A i \in 1..Len(listeners) : Len(listeners[i].set) > 0
    /\ \A k \in Keys :
           /\ (k \in Range(getEventKeys)) <=> (getListenerCount(k) > 0)
           /\ (getListenerCount(k) > 0) <=> hasListeners(k)

\* a closure has just removed the last callback of its key, which is gone from
\* the registry, while another key still has listeners
C13_Witness ==
    /\ lastCall.op = "unsubscribe" /\ lastCall.changed
    /\ lastCall.key \notin Range(getEventKeys)
    /\ ~hasListeners(lastCall.key)
    /\ Len(getEventKeys) > 0

\* C14: trigger called with a key that is not a non-empty string throws, no
\* listener has been invoked, no promise was returned and the registry is as it
\* was.
C14_TriggerRejectsInvalidKey ==
    (lastCall.op = "trigger" /\ ~NonEmptyString(lastCall.kv)) =>
        /\ lastError = "InvalidKey"
        /\ ~lastCall.changed
        /\ pc = "idle" /\ cur = "none"
        /\ tinvoked = <<>>
        /\ future = "none"

\* trigger has just been called with the empty string while listeners are registered
C14_Witness ==
    /\ lastCall.op = "trigger"
    /\ lastCall.kv = Str("")
    /\ lastError = "InvalidKey"
    /\ Len(listeners) > 0

\* C15: subscribe called with a key that is not a non-empty string, or with a
\* callback that is not a function, throws, leaves the registry as it was and
\* returns no closure.
C15_SubscribeRejectsInvalid ==
    (lastCall.op = "subscribe"
         /\ (~NonEmptyString(lastCall.kv) \/ lastCall.cbv.type # "function")) =>
        /\ lastError \in {"InvalidKey", "InvalidCallback"}
        /\ ~NonEmptyString(lastCall.kv) => lastError = "InvalidKey"
        /\ ~lastCall.changed
        /\ ~lastCall.issued

\* subscribe has just been called with a valid key and null as the callback, while
\* listeners are registered
C15_Witness ==
    /\ lastCall.op = "subscribe"
    /\ NonEmptyString(lastCall.kv)
    /\ lastCall.cbv.type # "function"
    /\ lastError = "InvalidCallback"
    /\ Len(listeners) > 0

\* C16: right after cleanup() the registry is empty (no key, every count 0,
\* hasListeners false), and a trigger that follows it invokes no callback and
\* returns an already resolved promise, as for a key never subscribed.
C16_CleanupEmpties ==
    /\ lastCall.op = "cleanup" =>
           /\ listeners = <<>>
           /\ getEventKeys = <<>>
           /\ \A k \in Keys : getListenerCount(k) = 0 /\ ~hasListeners(k)
    /\ (lastCall.op = "trigger" /\ lastCall.afterCleanup /\ NonEmptyString(lastCall.kv)) =>
           /\ pc = "idle"
           /\ tinvoked = <<>>
           /\ logged = 0
           /\ lastError = "none"
           /\ future = "resolved"

\* trigger was called right after cleanup() on a key that had been subscribed, and
\* its promise is resolved
C16_Witness ==
    /\ lastCall.op = "trigger" /\ lastCall.afterCleanup
    /\ \E c \in Callbacks : <<tkey, c>> \in handles
    /\ future = "resolved"
    /\ tinvoked = <<>>

\* C17: an unsubscribe closure issued before a cleanup() changes nothing and
\* does not throw when it is invoked after that cleanup, also when its key and
\* callback were subscribed again after the cleanup.
C17_StaleHandleNoOp ==
    (lastCall.op = "unsubscribe" /\ lastCall.stale) =>
        (~lastCall.changed /\ lastError = "none")

\* C18: in a dispatch no listener disturbs, the listeners are started in the
\* insertion order of the key's Set, synchronous and asynchronous alike; a
\* listener starts only when the one before it has returned, and when trigger
\* returns every listener has been started and none is running.
C18_InsertionOrder ==
    /\ ~tmutated => InvokedCbs = SubSeq(tmembers, 1, Len(tinvoked))
    /\ cur # "none" => (pc = "listener" /\ cur = tinvoked[Len(tinvoked)].cb)
    /\ pc = "listener" => cur # "none"
    /\ (Returned /\ ~tmutated) => (Len(tinvoked) = Len(tmembers) /\ cur = "none")

\* a trigger has returned after a synchronous and an asynchronous listener, started
\* in insertion order; the asynchronous one has not settled
C18_Witness ==
    /\ Returned /\ ~tmutated
    /\ Len(tmembers) = 2 /\ InvokedCbs = tmembers
    /\ promises = <<"pending">> /\ logged = 0

\* C19: trigger does not wait for a listener's promise: while the loop runs
\* every recorded promise is still unsettled, every listener has been started
\* when the returned promise is pending, and once the last recorded promise has
\* settled nothing else holds the returned promise back.
C19_NoSequentialWait ==
    /\ pc # "idle" => \A i \in 1..Len(promises) : promises[i] = "pending"
    /\ (future = "pending" /\ ~tmutated) => Len(tinvoked) = Len(tmembers)
    /\ (future = "pending" /\ \A i \in 1..Len(promises) : promises[i] # "pending") =>
           ENABLED FutureSettle

\* the second of two asynchronous listeners is running while the promise of the
\* first is pending
C19_Witness ==
    /\ pc = "listener"
    /\ ~tmutated
    /\ Len(tinvoked) = 2
    /\ promises = <<"pending">>

\* C20: every invocation a trigger makes receives the trigger's arguments, and a
\* trigger whose dispatch no listener disturbs has invoked exactly the callbacks
\* registered under its key, each once, and none registered only under another
\* key.
C20_ExactlyRegistered ==
    /\ \A i \in 1..Len(tinvoked) : tinvoked[i].args = targs
    /\ (~tmutated /\ after = 0) =>
           \A i \in 1..Len(tinvoked) : tinvoked[i].cb \in Range(MapGet(listeners, tkey))
    /\ (JustLeft /\ ~tmutated) =>
           /\ InvokedCbs = MapGet(listeners, tkey)
           /\ \A c \in Callbacks : Count(InvokedCbs, c) = Count(MapGet(listeners, tkey), c)

\* a trigger with argument "x" has invoked the one callback of its key, and the
\* callback registered only under the other key was not invoked
C20_Witness ==
    /\ JustLeft /\ ~tmutated
    /\ targs = "x"
    /\ Len(tinvoked) = 1 /\ tinvoked[1].args = "x"
    /\ \E k \in Keys \ {tkey} : \E c \in Range(MapGet(listeners, k)) :
           c \notin Range(InvokedCbs)

(***************************************************************************)
(* EventProvider: the context operations over the client EventDriver       *)
(***************************************************************************)
\* the variables of a dispatch in progress, which no operation below starts
dispatchVars == <<handles, lastError, pc, cur, calls, tkey, targs, tidx, tlive, stack,
                  promises, future, logged, tmembers, tinvoked, tmutated, tchanged,
                  lastCall, spent, stale, after>>

\* mutant: the provider creates an EventDriver of its own and ignores its client prop
ProviderRefOwn(client) == "own"

\* listenersRef = React.useRef<EventDriver>(client): the driver the context works on
ProviderRef(client) == client

\* the registry of a driver: of the client, or of one the provider made itself
DriverRegistry(d) == IF d = "client" THEN listeners ELSE ownListeners

\* the context's getListenerCount, hasListeners and getEventKeys
CtxListenerCount(k) ==
    LET m == DriverRegistry(ProviderRef("client"))
    IN IF MapHas(m, k) THEN Len(MapGet(m, k)) ELSE 0

CtxHasListeners(k) == CtxListenerCount(k) > 0

CtxEventKeys == MapKeys(DriverRegistry(ProviderRef("client")))

SetDriverRegistry(d, m) ==
    IF d = "client"
    THEN listeners' = m /\ UNCHANGED ownListeners
    ELSE ownListeners' = m /\ UNCHANGED listeners

\* history of the client's keys: when each was first subscribed to, and when the
\* Listener Set it has now was created (0 while it has none)
Stamp(d, k) ==
    /\ firstSub' = [x \in Keys |->
                      IF d = "client" /\ x = k /\ firstSub[x] = 0 THEN tick' ELSE firstSub[x]]
    /\ created' = [x \in Keys |->
                     IF ~MapHas(listeners', x) THEN 0
                     ELSE IF ~MapHas(listeners, x) THEN tick' ELSE created[x]]

NoTrigger == [via |-> "none", key |-> "none", args |-> "none"]

NoRelease == [driver |-> "none", key |-> "none", cb |-> "none", subs |-> 0]

\* history: the subscribe calls, one through the context and one on the client
\* itself, by which callback c stands registered under k on driver d; none of the
\* closures they returned has been invoked since
Subscriptions(d, k, c) ==
    (IF d = ProviderRef("client") /\ <<k, c>> \in ctxSubs.context THEN 1 ELSE 0)
        + (IF d = "client" /\ <<k, c>> \in ctxSubs.client THEN 1 ELSE 0)

\* a subscribe call on driver d, with a valid key and callback, that leaves the
\* driver with the registry m and returns the closure for (k, c)
DriverStore(d, k, c, m) ==
    /\ AtTopLevel \/ InListener
    /\ tick < MaxSubs
    /\ tick' = tick + 1
    /\ SetDriverRegistry(d, m)
    /\ phandles' = phandles \cup {<<d, k, c>>}
    /\ Stamp(d, k)
    /\ plast' = NoTrigger
    /\ released' = NoRelease
    /\ Caller("provider", k, c, NoCall)
    \* an entry added to a walked Set is appended behind the walk's position
    /\ UNCHANGED <<handles, tidx, tlive, stack>>

\* subscribe(key, callback) on driver d
DriverSubscribe(d, k, c) == DriverStore(d, k, c, SubscribeRegistry(DriverRegistry(d), k, c))

\* the maxListeners prop given to the provider (100 when it is not given)
maxListeners == 1

\* mutant: a key that has maxListeners listeners takes no more
CtxSubscribeCapped(m, k, c, max) ==
    IF max > 0 /\ Len(MapGet(m, k)) >= max THEN m ELSE SubscribeRegistry(m, k, c)

\* the context's subscribe on the registry m of its driver: the call is handed to
\* the driver whatever maxListeners is
CtxSubscribeRegistry(m, k, c, max) == SubscribeRegistry(m, k, c)

\* the context's subscribe
CtxSubscribe(k, c) ==
    /\ DriverStore(ProviderRef("client"), k, c,
                   CtxSubscribeRegistry(DriverRegistry(ProviderRef("client")), k, c,
                                        maxListeners))
    /\ ctxSubs' = [ctxSubs EXCEPT !.context = @ \cup {<<k, c>>}]
    /\ UNCHANGED hookVars

\* client.subscribe, called by code that holds the client itself
ClientSubscribe(k, c) ==
    /\ DriverSubscribe("client", k, c)
    /\ ctxSubs' = [ctxSubs EXCEPT !.client = @ \cup {<<k, c>>}]
    /\ UNCHANGED hookVars

\* an unsubscribe closure is called
HandleUnsubscribe(h) ==
    /\ h \in phandles
    /\ AtTopLevel \/ InListener
    /\ SetDriverRegistry(h[1], UnsubscribeRegistry(DriverRegistry(h[1]), h[2], h[3]))
    /\ ctxSubs' = IF h[1] = ProviderRef("client") /\ h[1] = "client"
                  THEN [context |-> ctxSubs.context \ {<<h[2], h[3]>>},
                        client |-> ctxSubs.client \ {<<h[2], h[3]>>}]
                  ELSE IF h[1] = "client"
                  THEN [ctxSubs EXCEPT !.client = @ \ {<<h[2], h[3]>>}]
                  ELSE [ctxSubs EXCEPT !.context = @ \ {<<h[2], h[3]>>}]
    /\ created' = [x \in Keys |-> IF MapHas(listeners', x) THEN created[x] ELSE 0]
    /\ plast' = NoTrigger
    /\ released' = IF Subscriptions(h[1], h[2], h[3]) > 0
                   THEN [driver |-> h[1], key |-> h[2], cb |-> h[3],
                         subs |-> Subscriptions(h[1], h[2], h[3])]
                   ELSE released
    /\ Caller("provider", h[2], h[3], NoCall)
    /\ IF h[1] = "client"
       THEN /\ LET w == WalkAfterDelete(tidx, tlive, tkey, MapGet(listeners, tkey),
                                        h[2], h[3], MapHas(listeners', tkey))
               IN tidx' = w.tidx /\ tlive' = w.tlive
            /\ stack' = StackAfterDelete(h[2], h[3])
       ELSE UNCHANGED <<tidx, tlive, stack>>
    /\ UNCHANGED <<phandles, tick, firstSub, handles, hookVars>>

\* client.cleanup()
ClientCleanup ==
    /\ AtTopLevel \/ InListener
    /\ listeners # <<>>
    /\ listeners' = CleanupRegistry(listeners)
    /\ ctxSubs' = IF ProviderRef("client") = "client"
                  THEN [context |-> {}, client |-> {}]
                  ELSE [ctxSubs EXCEPT !.client = {}]
    /\ created' = [x \in Keys |-> IF MapHas(listeners', x) THEN created[x] ELSE 0]
    /\ plast' = NoTrigger
    /\ released' = NoRelease
    /\ Caller("provider", "none", "none", NoCall)
    /\ tlive' = FALSE
    /\ tidx' = 0
    /\ stack' = StackAfterCleanup
    /\ UNCHANGED <<ownListeners, phandles, tick, firstSub, handles, hookVars>>

\* trigger(key, ...args) on driver d with listeners that leave the registry alone:
\* the invocations it makes, in order
DriverInvocations(d, k, a) ==
    LET s == MapGet(DriverRegistry(d), k)
    IN [i \in 1..Len(s) |-> Invocation(ForEachEntry(s, i - 1), a)]

\* trigger(key, ...args) on driver d, called by application code or by a callback:
\* the client's trigger; a driver the provider made for itself is followed for
\* listeners that return at once and leave the registry alone
TriggerOn(d, k, a) ==
    IF d = "client"
    THEN DriverTrigger(Str(k), a)
    ELSE /\ Idle
         /\ tkey' = k
         /\ targs' = a
         /\ tmembers' = MapGet(DriverRegistry(d), k)
         /\ tinvoked' = DriverInvocations(d, k, a)
         /\ tmutated' = FALSE
         /\ tchanged' = FALSE
         /\ promises' = <<>>
         /\ logged' = 0
         /\ future' = "resolved"
         /\ lastCall' = NoCall
         /\ lastError' = "none"
         /\ after' = 0
         /\ UNCHANGED <<listeners, handles, pc, cur, calls, tidx, tlive, stack, spent,
                        stale>>

\* history: the trigger application code called; none while a callback's own
\* trigger is taken to be the latest
Latest(via, k, a) ==
    IF pc = "idle" THEN [via |-> via, key |-> k, args |-> a] ELSE NoTrigger

\* mutant: the context's trigger calls the driver's trigger and returns nothing, so
\* its caller awaits undefined
CtxTriggerResultDropped(f) == IF f = "none" THEN "none" ELSE "resolved"

\* return listenersRef.current.trigger(key, ...args): what the context's trigger
\* (and the function useTriggerEvent returns) hands to its caller, f being the
\* promise the driver's trigger returned
CtxTriggerResult(f) == f

\* the context's trigger
CtxTrigger(k, a) ==
    /\ TriggerOn(ProviderRef("client"), k, a)
    /\ plast' = Latest("context", k, a)
    /\ UNCHANGED <<ownListeners, phandles, ctxSubs, tick, firstSub, created, released,
                   hookVars>>

\* client.trigger
ClientTrigger(k, a) ==
    /\ TriggerOn("client", k, a)
    /\ plast' = Latest("client", k, a)
    /\ UNCHANGED <<ownListeners, phandles, ctxSubs, tick, firstSub, created, released,
                   hookVars>>

ProviderNext ==
    \/ \E k \in Keys, c \in Callbacks : CtxSubscribe(k, c)
    \/ \E k \in Keys, c \in Callbacks : ClientSubscribe(k, c)
    \/ \E h \in {"client", "own"} \X Keys \X Callbacks : HandleUnsubscribe(h)
    \/ ClientCleanup
    \/ \E k \in Keys, a \in TriggerArgs : CtxTrigger(k, a)
    \/ \E k \in Keys, a \in TriggerArgs : ClientTrigger(k, a)
    \/ ForEachNext
    \/ \E o \in Outcomes : CallbackEnd(o)
    \/ TriggerReturn
    \/ \E i \in 1..MaxInvocations, st \in {"fulfilled", "rejected"} : PromiseSettle(i, st)
    \/ FutureSettle
    \/ Await

ProviderSpec == Init /\ [][ProviderNext]_vars

\* the keys the client has a Listener Set for
PresentKeys == {k \in Keys : MapHas(listeners, k)}

\* the sequence s holds exactly the members of S, each once
Enumerates(s, S) == Range(s) = S /\ Len(s) = Cardinality(S)

\* the sequence s of keys is in the increasing order of the stamps in t
OrderedBy(s, t) == \A i, j \in 1..Len(s) : i < j => t[s[i]] < t[s[j]]

\* C21 as stated: getEventKeys() returns the keys that have a Listener Set, each
\* once, in the order of the first subscription ever made to each key, also for a
\* key that was removed and subscribed again.
C21_FirstEverOrder ==
    Enumerates(getEventKeys, PresentKeys) /\ OrderedBy(getEventKeys, firstSub)

\* C21, amended: getEventKeys() returns the keys that have a Listener Set, each
\* once, in the order of the subscribe calls that created the Listener Sets they
\* have now; a key that was removed and subscribed again comes after the keys
\* that were present when it came back.
C21_CreationOrder ==
    Enumerates(getEventKeys, PresentKeys) /\ OrderedBy(getEventKeys, created)

\* a key was subscribed first, removed, and subscribed again after another key
C21_Witness ==
    /\ Len(getEventKeys) = 2
    /\ firstSub[getEventKeys[2]] < firstSub[getEventKeys[1]]
    /\ created[getEventKeys[1]] < created[getEventKeys[2]]

\* C30: the context's operations act on the client EventDriver: the context's
\* listener count, hasListeners and event keys agree with the client's, a trigger
\* on the client invokes what was subscribed through the context, and a trigger
\* through the context invokes what was subscribed on the client.
C30_ProviderActsOnClient ==
    /\ \A k \in Keys : /\ CtxListenerCount(k) = getListenerCount(k)
                       /\ CtxHasListeners(k) = hasListeners(k)
    /\ CtxEventKeys = getEventKeys
    /\ (plast.via = "client" /\ TriggerLeft) =>
          \A c \in Callbacks : <<plast.key, c>> \in ctxSubs.context =>
              Invocation(c, plast.args) \in Range(tinvoked)
    /\ (plast.via = "context" /\ TriggerLeft) =>
          \A c \in Callbacks : <<plast.key, c>> \in ctxSubs.client =>
              Invocation(c, plast.args) \in Range(tinvoked)

\* a trigger on the client reached a callback that only the context subscribed,
\* on a key where the client has a listener of its own too
C30_Witness ==
    /\ plast.via = "client" /\ TriggerLeft
    /\ \E c, e \in Callbacks :
          /\ <<plast.key, c>> \in ctxSubs.context \ ctxSubs.client
          /\ <<plast.key, e>> \in ctxSubs.client \ ctxSubs.context
          /\ tinvoked = <<Invocation(e, plast.args), Invocation(c, plast.args)>>

(***************************************************************************)
(* useMonitorEvent: one handler { callback, debounce, throttle } on one    *)
(* key, its debounce / throttle wrapper, the timers and the clock          *)
(***************************************************************************)
\* the key of the handler, the callback of the handler, and a listener of some
\* other component
HookKey == "a"
HookCb == "f"
OtherCb == "g"

\* values of config.debounce and config.throttle: a number of clock units, or
\* undefined (the option is not given)
Undefined == -1

DelayValues == {Undefined, 0, 1, 2}

\* how the handler's callback can end: it returns, it throws, or it returns a
\* promise that is rejected
HandlerOutcomes == {"returns", "throws", "rejects"}

\* debounceDelay !== undefined && throttleDelay !== undefined
BothSpecified(d, t) == d # Undefined /\ t # Undefined

\* what the effect subscribes: the debounced callback, the throttled one, or the
\* callback itself
WrapperKind(d, t) ==
    IF d # Undefined /\ d > 0 THEN "debounce"
    ELSE IF t # Undefined /\ t > 0 THEN "throttle"
    ELSE "plain"

\* timeoutRefsRef.current: the Map of timers the cleanup clears; nothing is ever
\* put into it
TimeoutRefs == {}

\* every listener the registry m holds, under any key
Held(m) == UNION {Range(m[i].set) : i \in 1..Len(m)}

\* the i-th wrapper made around the callback c: a function of its own, which is
\* neither c nor another wrapper of c
Wrapper(c, i) == "wrapper" \o ToString(i) \o "(" \o c \o ")"

\* createDebouncedCallback / createThrottledCallback return a new function at every
\* call: the first wrapper of c that the registry m does not hold
NewWrapper(m, c) ==
    Wrapper(c, CHOOSE i \in 1..(Cardinality(Held(m)) + 1) :
                   /\ Wrapper(c, i) \notin Held(m)
                   /\ \A j \in 1..(i - 1) : Wrapper(c, j) \in Held(m))

\* wrappedCallback: what the effect subscribes for the handler hs while the registry
\* is m, the callback itself unless a debounce or a throttle delay above 0 is given
WrappedCallback(m, hs) ==
    IF WrapperKind(hs.d, hs.t) = "plain" THEN hs.cb ELSE NewWrapper(m, hs.cb)

\* no unsubscribe function: the effect has not run, or it ran for no key
NoSubscription == [key |-> "none", cb |-> "none"]

\* the hook's listener is in the registry, under the key the triggers are made on
Registered ==
    /\ unsubscribeFunctions.key = HookKey
    /\ unsubscribeFunctions.cb \in Range(MapGet(listeners, HookKey))

\* clearTimeout(id)
ClearTimeout(ts, id) == {tm \in ts : tm.id # id}

\* mutant: the cleanup of the effect calls no unsubscribe function
HookTeardownKeeps(m, u) == m

\* the cleanup of the effect: every unsubscribe function is called
HookTeardown(m, u) == IF u = NoSubscription THEN m ELSE UnsubscribeRegistry(m, u.key, u.cb)

\* mutant: the wrappers end with `return callback(...args)`
ListenerResultForwarded(kind, outcome) ==
    IF outcome = "throws" THEN "threw"
    ELSE IF outcome = "rejects" THEN "promise"
    ELSE "returned"

\* what the subscribed listener hands to the dispatcher that called it, given how the
\* callback it invoked within the call ended ("none": it invoked none).  The wrappers
\* are arrow functions with a block body and no return statement: an exception of
\* the callback passes through them, its result does not.
ListenerResult(kind, outcome) ==
    IF outcome = "throws" THEN "threw"
    ELSE IF kind = "plain" /\ outcome = "rejects" THEN "promise"
    ELSE "returned"

\* the Promise trigger returns when the handler's listener ended with res; a listener
\* of another component returns undefined
TriggerFuture(res) == ReturnedPromise(RecordPromise(<<>>, res))

\* history: the handler's callback is invoked with arguments a from site, as the
\* listener call c (the latest one) stands
Invoked(site, a, c) ==
    [at |-> now, args |-> a, site |-> site, prevAt |-> winv.at, callAt |-> c.at,
     callArgs |-> c.args, since |-> c.since, owed |-> owed, gone |-> mounted = "gone"]

\* history: the listener is called with arguments a
Called(a, immediate) ==
    [at |-> now, args |-> a, first |-> ntrig = 0, immediate |-> immediate,
     gone |-> mounted = "gone", since |-> wcall.since + 1]

\* the handlers object of the first render: { [HookKey]: { callback: HookCb,
\* debounce: d, throttle: t } }
MountHandlers(d, t) == [key |-> HookKey, cb |-> HookCb, d |-> d, t |-> t]

\* a handlers object without any key
NoHandlers == [key |-> "none", cb |-> "none", d |-> Undefined, t |-> Undefined]

\* the unsubscribe function the subscribing effect pushes when it runs for the
\* handlers hs while the registry is m
EffectUnsubscribe(m, hs) ==
    IF hs = NoHandlers THEN NoSubscription
    ELSE [key |-> hs.key, cb |-> WrappedCallback(m, hs)]

\* the registry after the subscribing effect has run for the handlers hs:
\* subscribe(key, wrappedCallback)
EffectSubscribes(m, hs) ==
    IF hs = NoHandlers THEN m
    ELSE SubscribeRegistry(m, hs.key, WrappedCallback(m, hs))

\* the effect runs for the handler { callback, debounce: d, throttle: t }
Mount(d, t) ==
    /\ mounted = "no"
    /\ mounted' = "yes"
    /\ dOpt' = d
    /\ tOpt' = t
    /\ warned' = IF BothSpecified(d, t) THEN warned + 1 ELSE warned
    /\ wkind' = WrapperKind(d, t)
    /\ listeners' = EffectSubscribes(listeners, MountHandlers(d, t))
    /\ unsubscribeFunctions' = EffectUnsubscribe(listeners, MountHandlers(d, t))
    /\ handlersRef' = MountHandlers(d, t)
    /\ UNCHANGED <<now, timers, ntimers, timeoutId, lastCallTime, pendingArgs, wpc, wstack,
                   wcall, winv, owed, ntrig, lateTrig, uncaught, hfuture>>
    /\ UNCHANGED <<dispatchVars, provVars>>

\* the debounced callback is called with a: a pending timer is cleared, a new one set
DebouncedCall(a) ==
    /\ timers' = ClearTimeout(timers, timeoutId)
                    \cup {[id |-> ntimers + 1, due |-> now + dOpt, args |-> a]}
    /\ timeoutId' = ntimers + 1
    /\ ntimers' = ntimers + 1
    /\ wcall' = Called(a, FALSE)
    /\ UNCHANGED <<lastCallTime, pendingArgs, winv, owed, wpc, wstack>>

\* the throttled callback is called with a within the window: a is buffered and the
\* trailing timer set unless there is one
ThrottledBuffer(a) ==
    /\ now - lastCallTime < tOpt
    /\ pendingArgs' = a
    /\ IF timeoutId = 0
       THEN /\ timers' = timers \cup {[id |-> ntimers + 1,
                                       due |-> now + (tOpt - (now - lastCallTime)),
                                       args |-> "none"]}
            /\ timeoutId' = ntimers + 1
            /\ ntimers' = ntimers + 1
       ELSE UNCHANGED <<timers, timeoutId, ntimers>>
    /\ wcall' = Called(a, FALSE)
    /\ owed' = IF winv.at >= 0 THEN a ELSE owed
    /\ UNCHANGED <<lastCallTime, winv, wpc, wstack>>

\* the callback is invoked within a call of the listener: an invocation in progress,
\* whose body made the trigger that called the listener, waits for this one
InvokeDirect ==
    /\ wstack' = IF wpc = "idle" THEN wstack ELSE Append(wstack, wpc)
    /\ wpc' = "direct"

\* the throttled callback is called with a after the window: the callback is
\* invoked in the call
ThrottledNow(a) ==
    /\ now - lastCallTime >= tOpt
    /\ lastCallTime' = now
    /\ wcall' = [Called(a, TRUE) EXCEPT !.since = 0]
    /\ winv' = Invoked("direct", a, Called(a, TRUE))
    /\ InvokeDirect
    /\ UNCHANGED <<timers, timeoutId, ntimers, pendingArgs, owed>>

\* the callback itself is subscribed: the dispatcher invokes it
PlainCall(a) ==
    /\ wcall' = [Called(a, TRUE) EXCEPT !.since = 0]
    /\ winv' = Invoked("direct", a, Called(a, TRUE))
    /\ InvokeDirect
    /\ UNCHANGED <<timers, timeoutId, ntimers, lastCallTime, pendingArgs, owed>>

\* the call of the subscribed listener with a: the debounced callback, the throttled
\* one (const now = Date.now(); if (now - lastCallTime >= delay) ... else ...), or the
\* callback itself
ListenerCall(a) ==
    CASE wkind = "debounce" -> DebouncedCall(a)
      [] wkind = "throttle" -> ThrottledNow(a) \/ ThrottledBuffer(a)
      [] OTHER -> PlainCall(a)

\* trigger(HookKey, a) from outside any callback; the listeners of other components
\* do nothing that is followed here
HookTrigger(a) ==
    /\ mounted # "no"
    /\ wpc = "idle"
    /\ lateTrig' = (lateTrig \/ mounted = "gone")
    /\ IF Registered
       THEN /\ ntrig < MaxTriggers
            /\ ntrig' = ntrig + 1
            /\ ListenerCall(a)
            /\ hfuture' = IF wpc' = "direct" THEN "none"
                          ELSE TriggerFuture(ListenerResult(wkind, "none"))
       ELSE /\ mounted = "gone" /\ ~lateTrig
            /\ hfuture' = ReturnedPromise(<<>>)
            /\ UNCHANGED <<timers, ntimers, timeoutId, lastCallTime, pendingArgs, wpc,
                           wstack, wcall, winv, owed, ntrig>>
    /\ UNCHANGED <<now, mounted, dOpt, tOpt, wkind, warned, uncaught, listeners,
                   handlersRef, unsubscribeFunctions>>
    /\ UNCHANGED <<dispatchVars, provVars>>

\* the handler's callback, while it runs, triggers its own event: the listener is
\* called again from inside the callback
ReentrantCall(a) ==
    /\ wpc \in {"direct", "timer"}
    /\ Registered
    /\ ntrig < MaxTriggers
    /\ ntrig' = ntrig + 1
    /\ ListenerCall(a)
    /\ UNCHANGED <<now, mounted, dOpt, tOpt, wkind, warned, lateTrig, uncaught, listeners,
                   hfuture, handlersRef, unsubscribeFunctions>>
    /\ UNCHANGED <<dispatchVars, provVars>>

\* a timer whose time has come (now or earlier) runs
TimerFire(tm) ==
    /\ wpc = "idle"
    /\ tm \in timers
    /\ now >= tm.due
    /\ timers' = timers \ {tm}
    /\ IF wkind = "debounce"
       THEN /\ winv' = Invoked("timer", tm.args, wcall)
            /\ wcall' = [wcall EXCEPT !.since = 0]
            /\ wpc' = "timer"
            /\ UNCHANGED <<timeoutId, lastCallTime, pendingArgs, owed>>
       ELSE IF pendingArgs # "null"
       THEN /\ lastCallTime' = now
            /\ winv' = Invoked("timer", pendingArgs, wcall)
            /\ wcall' = [wcall EXCEPT !.since = 0]
            /\ owed' = "none"
            /\ wpc' = "timer"
            /\ UNCHANGED <<timeoutId, pendingArgs>>
       ELSE /\ timeoutId' = 0
            /\ UNCHANGED <<lastCallTime, pendingArgs, winv, wcall, owed, wpc>>
    /\ UNCHANGED <<now, mounted, dOpt, tOpt, wkind, warned, ntimers, ntrig, lateTrig,
                   uncaught, listeners, hfuture, handlersRef,
                   unsubscribeFunctions, wstack>>
    /\ UNCHANGED <<dispatchVars, provVars>>

\* the handler's callback ends; what follows the invocation in the wrapper runs
\* unless the callback threw
HandlerEnd(outcome) ==
    /\ wpc \in {"direct", "timer"}
    \* the invocation that waited for this one goes on
    /\ wpc' = IF wstack = <<>> THEN "idle" ELSE wstack[Len(wstack)]
    /\ wstack' = IF wstack = <<>> THEN wstack ELSE SubSeq(wstack, 1, Len(wstack) - 1)
    /\ IF outcome = "throws"
       THEN UNCHANGED <<timers, timeoutId, pendingArgs>>
       ELSE CASE wkind = "debounce" ->
                    /\ timeoutId' = 0
                    /\ UNCHANGED <<timers, pendingArgs>>
              [] wkind = "throttle" /\ wpc = "timer" ->
                    /\ pendingArgs' = "null"
                    /\ timeoutId' = 0
                    /\ UNCHANGED timers
              [] wkind = "throttle" /\ wpc = "direct" ->
                    IF timeoutId # 0
                    THEN /\ timers' = ClearTimeout(timers, timeoutId)
                         /\ timeoutId' = 0
                         /\ pendingArgs' = "null"
                    ELSE UNCHANGED <<timers, timeoutId, pendingArgs>>
              [] OTHER -> UNCHANGED <<timers, timeoutId, pendingArgs>>
    /\ uncaught' = IF uncaught # "none" THEN uncaught
                   ELSE IF outcome = "throws" /\ wpc = "timer" THEN "exception"
                   ELSE IF outcome = "rejects" /\ wkind # "plain" THEN "rejection"
                   ELSE "none"
    \* the listener called by the trigger of the application returns
    /\ hfuture' = IF wpc = "direct" /\ wstack = <<>>
                   THEN TriggerFuture(ListenerResult(wkind, outcome))
                   ELSE hfuture
    /\ UNCHANGED <<now, mounted, dOpt, tOpt, wkind, warned, ntimers, lastCallTime, wcall,
                   winv, owed, ntrig, lateTrig, listeners, handlersRef,
                   unsubscribeFunctions>>
    /\ UNCHANGED <<dispatchVars, provVars>>

\* the cleanup of the effect
Unmount ==
    /\ mounted = "yes"
    /\ wpc = "idle"
    /\ mounted' = "gone"
    /\ listeners' = HookTeardown(listeners, unsubscribeFunctions)
    /\ timers' = {tm \in timers : tm.id \notin TimeoutRefs}
    /\ handlersRef' = NoHandlers
    /\ UNCHANGED unsubscribeFunctions
    /\ UNCHANGED <<now, dOpt, tOpt, wkind, warned, ntimers, timeoutId, lastCallTime,
                   pendingArgs, wpc, wstack, wcall, winv, owed, ntrig, lateTrig, uncaught,
                   hfuture>>
    /\ UNCHANGED <<dispatchVars, provVars>>

\* another component has subscribed a listener of its own to the key before the
\* hook's component is rendered, and may remove it after that component is gone
OtherSubscribe ==
    /\ mounted = "no"
    /\ OtherCb \notin Range(MapGet(listeners, HookKey))
    /\ listeners' = SubscribeRegistry(listeners, HookKey, OtherCb)
    /\ UNCHANGED <<hookVars, dispatchVars, provVars>>

OtherUnsubscribe ==
    /\ mounted = "gone"
    /\ wpc = "idle"
    /\ OtherCb \in Range(MapGet(listeners, HookKey))
    /\ listeners' = UnsubscribeRegistry(listeners, HookKey, OtherCb)
    /\ UNCHANGED <<hookVars, dispatchVars, provVars>>

\* time passes; the clock is followed from the moment the effect runs
Tick ==
    /\ mounted # "no"
    /\ now < MaxTime
    /\ now' = now + 1
    /\ UNCHANGED <<mounted, dOpt, tOpt, wkind, warned, timers, ntimers, timeoutId,
                   lastCallTime, pendingArgs, wpc, wstack, wcall, winv, owed, ntrig,
                   lateTrig, uncaught, listeners, hfuture, handlersRef,
                   unsubscribeFunctions>>
    /\ UNCHANGED <<dispatchVars, provVars>>

HookNext ==
    \/ \E d \in DelayValues, t \in DelayValues : Mount(d, t)
    \/ \E a \in Args : HookTrigger(a)
    \/ \E a \in Args : ReentrantCall(a)
    \/ \E tm \in timers : TimerFire(tm)
    \/ \E outcome \in HandlerOutcomes : HandlerEnd(outcome)
    \/ Unmount
    \/ OtherSubscribe
    \/ OtherUnsubscribe
    \/ Tick

HookSpec == Init /\ [][HookNext]_vars

(***************************************************************************)
(* Claims about the debounce / throttle wrappers and the hook              *)
(***************************************************************************)
\* C22: for a debounce(delay) wrapper, a burst of calls less than delay apart gives
\* exactly one invocation of the callback: it carries the arguments of the last
\* call made before it, comes no earlier than delay after that call, and no second
\* invocation follows without a new call.
C22_DebounceBurst ==
    (wkind = "debounce" /\ winv.at >= 0) =>
        /\ winv.args = winv.callArgs
        /\ winv.at >= winv.callAt + dOpt
        /\ winv.since >= 1

\* C23: the first call ever made to a throttle(delay) wrapper invokes the callback
\* in that call with its arguments, whatever the delay and the clock.
C23_ThrottleFirstCallImmediate ==
    (wkind = "throttle" /\ wcall.first) => wcall.immediate

\* C24: for a throttle(delay) wrapper, the calls made within delay after an
\* invocation at t are answered by exactly one more invocation, made by the
\* trailing timer at t + delay or later with the arguments of the last of them:
\* as long as such a call is undelivered it is buffered with a timer set, and
\* the next invocation is the timer's and carries its arguments.
C24_ThrottleTrailing ==
    wkind = "throttle" =>
        /\ (wpc = "idle" /\ owed # "none") =>
              /\ pendingArgs = owed
              /\ \E tm \in timers : tm.id = timeoutId
        /\ (winv.at >= 0 /\ winv.owed # "none") =>
              /\ winv.site = "timer"
              /\ winv.args = winv.owed
              /\ winv.at >= winv.prevAt + tOpt

\* C25: for a throttle(delay) wrapper, two successive invocations of the callback
\* are at least delay apart, also when timers run late.
C25_ThrottleSpacing ==
    (wkind = "throttle" /\ winv.prevAt >= 0) => winv.at - winv.prevAt >= tOpt

\* C26: when both debounce and throttle are given, the subscribed listener is a
\* debounce wrapper, a warning is emitted and the listener is subscribed, whatever
\* the two values.
C26_DebounceWins ==
    (mounted = "yes" /\ BothSpecified(dOpt, tOpt)) =>
        /\ wkind = "debounce"
        /\ warned = 1
        /\ Registered

\* C27: after the cleanup of the effect, the callback of a debounced or throttled
\* handler is not invoked any more, also when a timer was pending at the cleanup.
C27_NoInvocationAfterTeardown ==
    wkind \in {"debounce", "throttle"} => ~winv.gone

\* C28: after the cleanup of the effect the hook's listener is not in the registry,
\* hasListeners is false for the key unless another component listens to it, and
\* a later trigger on the key neither calls the hook's listener nor invokes the
\* handler's callback.
C28_TeardownUnsubscribes ==
    mounted = "gone" =>
        /\ ~Registered
        /\ (OtherCb \notin Range(MapGet(listeners, HookKey)) => ~hasListeners(HookKey))
        /\ ~wcall.gone
        /\ (winv.gone => winv.site = "timer")

\* the key was triggered after the cleanup, the hook's listener having been called
\* before it, and the key has lost its last listener
C28_Witness ==
    /\ mounted = "gone"
    /\ lateTrig
    /\ wcall.at >= 0
    /\ ~MapHas(listeners, HookKey)

\* C29: no failure of a listener's callback, thrown or through its promise, also of
\* a callback wrapped by debounce or throttle, escapes as an unhandled error.
C29_FailuresContained == uncaught = "none"


(***************************************************************************)
(* Further properties of the provider, the dispatcher and the hook         *)
(***************************************************************************)
\* C31: the promise the context's trigger returns to its caller is the one the
\* driver's trigger returned: it is not resolved while a promise recorded by
\* that trigger is pending, and it is pending as long as one is.
C31_ContextReturnsFuture ==
    /\ CtxTriggerResult(future) = "resolved" =>
           \A i \in 1..Len(promises) : promises[i] # "pending"
    /\ (Returned /\ \E i \in 1..Len(promises) : promises[i] = "pending") =>
           CtxTriggerResult(future) = "pending"

\* a trigger has returned, one of its two asynchronous listeners has settled, and
\* the promise handed to the caller is pending
C31_Witness ==
    /\ Returned
    /\ promises = <<"fulfilled", "pending">>
    /\ CtxTriggerResult(future) = "pending"


\* C32: maxListeners is informational: a subscribe made through the context, also
\* when the key already has maxListeners listeners or more, leaves the registry
\* that subscribe leaves without the option, and returns the closure for its
\* key and callback.
C32_MaxListenersInformational ==
    [][\A k \in Keys, c \in Callbacks :
          CtxSubscribe(k, c) =>
              /\ listeners' = SubscribeRegistry(listeners, k, c)
              /\ c \in Range(MapGet(listeners', k))
              /\ <<"client", k, c>> \in phandles']_vars

\* two listeners were subscribed through the context to one key, more than
\* maxListeners, and both are registered
C32_Witness ==
    \E k \in Keys :
        /\ ctxSubs.client = {}
        /\ ctxSubs.context = {<<k, "f">>, <<k, "g">>}
        /\ CtxListenerCount(k) = 2
        /\ CtxListenerCount(k) > maxListeners


\* C33: a trigger invokes each callback at most once, also when listeners
\* unsubscribe and subscribe themselves again, or subscribe other callbacks to
\* the key, during the dispatch (so it ends after as many invocations as there
\* are callbacks).
C33_AtMostOncePerTrigger ==
    \A c \in Callbacks : Count(InvokedCbs, c) <= 1


\* the steps of the Dispatcher itself: trigger() from its call to its return, the
\* settling of the promises it recorded, and the reaction that resolves its future
DispatcherStep ==
    \/ \E kv \in KeyValues, a \in TriggerArgs : Trigger(kv, a)
    \/ ForEachNext
    \/ \E o \in Outcomes : CallbackEnd(o)
    \/ TriggerReturn
    \/ \E i \in 1..MaxInvocations, st \in {"fulfilled", "rejected"} : PromiseSettle(i, st)
    \/ FutureSettle

\* C34: no step of the Dispatcher changes the registry, whether the callback it has
\* called returned, threw or returned a promise that is rejected later; so when no
\* listener calls subscribe, unsubscribe or cleanup, the registry after trigger has
\* returned, and after its future has resolved, is the registry before the call.
C34_DispatcherKeepsRegistry ==
    [][DispatcherStep => listeners' = listeners]_vars

\* a trigger over two listeners, one that threw and one whose promise was rejected,
\* has resolved its future, no registry call was made since trigger was called, and
\* the key's Listener Set is the one trigger found
C34_Witness ==
    /\ Returned /\ future = "resolved"
    /\ ~tmutated /\ lastCall.op = "trigger"
    /\ Len(tmembers) = 2 /\ InvokedCbs = tmembers
    /\ promises = <<"rejected">> /\ logged = 2
    /\ MapGet(listeners, tkey) = tmembers


\* C35: a debounce or throttle wrapper has at most one live timer (set and neither
\* fired nor cleared) at any time.
C35_OneLiveTimer ==
    Cardinality(timers) <= 1


\* C36: once the latest call of a throttle wrapper has fired immediately, no
\* trailing timer is left and nothing is buffered (when the invocation has ended),
\* and no invocation by a trailing timer follows while no newer call is made.
C36_ImmediateCancelsTrailing ==
    (wkind = "throttle" /\ wcall.immediate) =>
        /\ winv.site = "direct"
        /\ wpc = "idle" => (timers = {} /\ pendingArgs = "null")


\* C37: while the component of a throttle wrapper is mounted and no invocation is
\* running, buffered arguments always have a trailing timer that has not fired yet
\* and will deliver them.
C37_BufferedHasTimer ==
    (wkind = "throttle" /\ mounted = "yes" /\ wpc = "idle" /\ pendingArgs # "null") =>
        \E tm \in timers : tm.id = timeoutId


\* C38: the Promise returned by a trigger whose listener is a debounce or throttle
\* wrapper is resolved when trigger returns, whatever the handler's callback does:
\* not invoked yet, or invoked within the call and returning a promise.
C38_WrappedLooksSynchronous ==
    (wkind \in {"debounce", "throttle"} /\ hfuture # "none") => hfuture = "resolved"

\* a throttle wrapper invoked the callback within the call, the callback returned a
\* promise (rejected, with nobody holding it), and the trigger's Promise is resolved
C38_Witness ==
    /\ wkind = "throttle" /\ wcall.immediate /\ wpc = "idle"
    /\ uncaught = "rejection"
    /\ hfuture = "resolved"


\* the driver a trigger made through `via` works on
TriggerDriver(via) == IF via = "context" THEN ProviderRef("client") ELSE "client"

\* C39: once a closure issued for (key, callback) has been invoked, and until the
\* pair is subscribed again, the callback is not registered under the key and no
\* trigger of the key invokes it, by however many subscribe calls the pair stood
\* registered.
C39_RegistrationPerReference ==
    released # NoRelease =>
        /\ released.cb \notin Range(MapGet(DriverRegistry(released.driver), released.key))
        /\ (plast.via # "none" /\ plast.key = released.key
               /\ TriggerDriver(plast.via) = released.driver) =>
                  \A i \in 1..Len(tinvoked) : tinvoked[i].cb # released.cb

\* the pair stood registered by two subscribe calls, one closure was invoked, and a
\* later trigger of the key has invoked the key's other callback only
C39_Witness ==
    /\ released.subs = 2
    /\ plast.via = "context" /\ plast.key = released.key /\ TriggerLeft
    /\ Len(tinvoked) = 1 /\ tinvoked[1].cb # released.cb
    /\ released.cb \notin Range(MapGet(listeners, released.key))


(***************************************************************************)
(* useMonitorEvent across renders                                          *)
(***************************************************************************)
\* the handlers objects a later render can pass: no key, or one key with a callback
\* and a debounce option
Handlers == {NoHandlers} \cup [key : Keys, cb : Callbacks, d : {Undefined, 1}, t : {Undefined}]

\* mutant: the subscribing effect lists the handlers among its dependencies
EffectDepsChangedHandlers(old, new) == old # new

\* the dependencies of the subscribing effect, [subscribe], differ between two
\* renders: subscribe is the context's useCallback with no dependencies, the same
\* function at every render, whatever the handlers are
EffectDepsChanged(old, new) == FALSE

\* the component is rendered again with the handlers hs: the first effect stores
\* them in handlersRef; the subscribing effect is cleaned up and run again only if
\* its dependencies changed
Rerender(hs) ==
    /\ mounted = "yes"
    /\ wpc = "idle"
    /\ hs # handlersRef
    /\ handlersRef' = hs
    /\ IF EffectDepsChanged(handlersRef, hs)
       THEN /\ listeners' = EffectSubscribes(HookTeardown(listeners, unsubscribeFunctions), hs)
            /\ unsubscribeFunctions' =
                   EffectUnsubscribe(HookTeardown(listeners, unsubscribeFunctions), hs)
            /\ dOpt' = hs.d
            /\ tOpt' = hs.t
            /\ wkind' = WrapperKind(hs.d, hs.t)
            /\ warned' = IF BothSpecified(hs.d, hs.t) THEN warned + 1 ELSE warned
            /\ timeoutId' = 0
            /\ lastCallTime' = 0
            /\ pendingArgs' = "null"
       ELSE UNCHANGED <<listeners, unsubscribeFunctions, dOpt, tOpt, wkind, warned,
                        timeoutId, lastCallTime, pendingArgs>>
    /\ UNCHANGED <<now, mounted, timers, ntimers, wpc, wstack, wcall, winv, owed, ntrig,
                   lateTrig, uncaught, hfuture>>
    /\ UNCHANGED <<dispatchVars, provVars>>

RenderNext ==
    \/ \E d \in DelayValues, t \in DelayValues : Mount(d, t)
    \/ \E hs \in Handlers : Rerender(hs)
    \/ \E a \in Args : HookTrigger(a)
    \/ \E tm \in timers : TimerFire(tm)
    \/ HandlerEnd("returns")
    \/ Unmount
    \/ Tick

RenderSpec == Init /\ [][RenderNext]_vars

\* C40: rendering the component again with other handlers (another callback,
\* another key, other debounce / throttle options, no key) leaves the registry, the
\* subscribed wrapper and its state as the effect made them at mount.
C40_SubscribedAtMountOnly ==
    [][\A hs \in Handlers :
          Rerender(hs) =>
              /\ listeners' = listeners
              /\ unsubscribeFunctions' = unsubscribeFunctions
              /\ <<wkind', dOpt', tOpt'>> = <<wkind, dOpt, tOpt>>
              /\ <<timers', timeoutId', lastCallTime', pendingArgs'>> =
                     <<timers, timeoutId, lastCallTime, pendingArgs>>]_vars

\* the latest render passed another callback under another key with other options;
\* a trigger made after it on the key of the mount is invoking the callback of the
\* mount, and the registry holds that callback and nothing else
C40_Witness ==
    /\ mounted = "yes"
    /\ handlersRef.key # HookKey /\ handlersRef.cb = OtherCb
    /\ <<handlersRef.d, handlersRef.t>> # <<dOpt, tOpt>>
    /\ wpc = "direct" /\ wkind = "plain" /\ ~winv.gone
    /\ listeners = SubscribeRegistry(<<>>, HookKey, HookCb)

====
